---- MODULE Spec2Model ----
(***************************************************************************)
(* Model of the image viewer (src/app.cpp): the navigation state           *)
(* (g_index, g_frameIndex), the file list g_files and its replacement by   *)
(* EnumFiles, the bitmap cache g_cache shared by the UI thread             *)
(* (GetBitmapAt) and the background loader thread (BackgroundLoader /      *)
(* PreloadAround), and the message handlers of the UI thread.              *)
(*                                                                         *)
(* A path is a positive integer; the integer order is the order of the     *)
(* std::map keys.  A decoded bitmap is a record holding the identity of    *)
(* the Bitmap object (as an address does): two live bitmaps of one path    *)
(* with different identities are different instances, and the identity of  *)
(* a destroyed bitmap is used again.                                       *)
(***************************************************************************)
EXTENDS Integers, Sequences, FiniteSets, TLC

(***************************************************************************)
(* Bounds of the model and constants of the program.                       *)
(***************************************************************************)
\* number of image files at the top level of the small folder
NSmall == 2
\* number of image files in the large folder
NLarge == 14
\* frames of the animated image on the disk
GifFrames == 2
\* ShowImageAtIndex is tried with the arguments -MaxJump .. MaxJump
MaxJump == 5
\* times the user pages forward through the large folder (SpecTrim)
PageBudget == 13
\* longest file list of the wraparound harness (SpecNav)
RtMaxLen == 6
\* most files in the folder of the prefetch window harness (SpecWin)
WinMaxLen == 5
\* calls of RotateFlip in a run
RotBudget == 1
\* image and panel sides tried for CalcRectAndMatrix go up to this
FitMax == 4
\* EXIF orientation values tried go from 0 up to this
OrientMax == 9
\* the user pages backward at most this often
BackBudget == 14

\* PreloadAround: while (g_cache.size() > 12)
CacheCap == 12
\* PreloadAround: for (int d = -2; d <= 2; ++d)
Window == 2

\* results of a read of g_files that the language leaves undefined
Garbage == 0
Crash == 0 - 1

\* a disk: the number of images at the top level of the folder "images",
\* the number in its subfolder, and the images moved to the recycle bin
SmallDisk == [top |-> NSmall, sub |-> 1, gone |-> {}]
LargeDisk == [top |-> NLarge, sub |-> 0, gone |-> {}]
Folder(n) == [top |-> n, sub |-> 0, gone |-> {}]
Disks == {SmallDisk, LargeDisk} \cup {Folder(n) : n \in 0 .. WinMaxLen}
Roots == {"images", "empty"}

\* every path a listing can hold
Paths == 1 .. (IF NLarge > NSmall + 1 THEN NLarge ELSE NSmall + 1)

\* the file that Bitmap::FromFile cannot decode, and the animated one
Corrupt == {3}
Animated == {2}

Range(s) == {s[k] : k \in 1 .. Len(s)}
Iota(n) == [k \in 1 .. n |-> k]

(***************************************************************************)
(* EnumFiles, lines 124-142: the listing of g_rootPath, recursive or not.  *)
(* The small folder holds NSmall images and one more in a subfolder; the   *)
(* large folder holds NLarge images; the empty folder holds none.          *)
(***************************************************************************)
Listing(d, root, rec) ==
    LET Exists(p) == p \notin d.gone
    IN  IF root = "empty" THEN << >>
        ELSE IF rec THEN SelectSeq(Iota(d.top + d.sub), Exists)
        ELSE SelectSeq(Iota(d.top), Exists)

DiskPaths(d) == Range(Listing(d, "images", TRUE))

(***************************************************************************)
(* Bitmap::FromFile and GetLastStatus() == Ok: the decode of a path        *)
(* succeeds for an existing file that is not corrupt.                      *)
(***************************************************************************)
DecodeOk(d, p) == p \in DiskPaths(d) /\ p \notin Corrupt

\* bmp->GetFrameCount(&FrameDimensionTime)
FrameCount(p) == IF p \in Animated THEN GifFrames ELSE 1

\* a null shared_ptr<Bitmap>, and one that points to the instance k, which
\* was decoded from the content src of its file and then turned rot times
\* in memory by RotateFlip
NoBmp == [inst |-> 0, src |-> 0, rot |-> 0]
Bmp(k, v) == [inst |-> k, src |-> v, rot |-> 0]

\* new Bitmap from a file of content v: an identity that no live instance in
\* the set has
FreshBmp(live, v) ==
    LET used == {b.inst : b \in live}
    IN  Bmp(CHOOSE k \in 1 .. (Cardinality(used) + 1) :
                /\ k \notin used
                /\ \A j \in 1 .. (k - 1) : j \in used, v)

\* the pixels of a bitmap: the quarter turns away from the first content of
\* its file
Content(b) == b.src + b.rot
NoContent == 0 - 1

EmptyCache == [p \in Paths |-> NoBmp]
Keys(c) == {p \in Paths : c[p] # NoBmp}
CacheSize(c) == Cardinality(Keys(c))

\* the int operator % of C++ (truncation toward zero), n > 0
CMod(a, n) == IF a >= 0 THEN a % n ELSE 0 - ((0 - a) % n)

\* i = i % n
NormNoWrap(i, n) == CMod(i, n)

\* i = (i % n + n) % n   (GetBitmapAt line 250, loadOne line 156)
Norm(i, n) == CMod(CMod(i, n) + n, n)

(***************************************************************************)
(* ShowImageAtIndex, lines 795-796: the index stored for an argument.      *)
(***************************************************************************)
ShowIndexWrong(index, n) ==
    LET a == IF index < 0 THEN n - 1 ELSE index
    IN  IF a > n THEN 0 ELSE a

ShowIndexClamp(index, n) ==
    LET a == IF index < 0 THEN 0 ELSE index
    IN  IF a >= n THEN n - 1 ELSE a

ShowIndex(index, n) ==
    LET a == IF index < 0 THEN n - 1 ELSE index
    IN  IF a >= n THEN 0 ELSE a

(***************************************************************************)
(* EnumFiles, lines 145-146: the index after g_files was replaced.         *)
(***************************************************************************)
EnumIndexWrong(index, n) == IF n = 0 THEN 0 ELSE IF index > n THEN 0 ELSE index

EnumIndex(index, n) == IF n = 0 THEN 0 ELSE IF index >= n THEN 0 ELSE index

(***************************************************************************)
(* PreloadAround, lines 169-173: erase g_cache.begin() while the cache     *)
(* holds more than 12 entries.                                             *)
(***************************************************************************)
MinKey(c) == CHOOSE p \in Keys(c) : \A q \in Keys(c) : p <= q

RECURSIVE TrimTo(_, _)
TrimTo(c, cap) ==
    IF CacheSize(c) > cap THEN TrimTo([c EXCEPT ![MinKey(c)] = NoBmp], cap) ELSE c

TrimLoose(c) == TrimTo(c, CacheCap + 1)

TrimNever(c) == c

Trim(c) == TrimTo(c, CacheCap)

(***************************************************************************)
(* loadOne, lines 158-164: nothing when the path is a key, else decode     *)
(* and store on success.                                                   *)
(***************************************************************************)
LoadOneKeepFailed(d, c, p, live, v) ==
    IF p \notin Paths THEN c
    ELSE IF c[p] # NoBmp THEN c
    ELSE [c EXCEPT ![p] = FreshBmp(live, v[p])]

LoadOne(d, c, p, live, v) ==
    IF p \notin Paths THEN c
    ELSE IF c[p] # NoBmp THEN c
    ELSE IF DecodeOk(d, p) THEN [c EXCEPT ![p] = FreshBmp(live, v[p])]
    ELSE c

VARIABLES
    disk,           \* the folders on the disk (fixed)
    fileVer,        \* the content of each file: the quarter turns written
                    \* over it by Rotate90AndResave
    g_rootPath,     \* line 36
    g_recursive,    \* line 37
    g_files,        \* line 38
    g_index,        \* line 40
    g_cache,        \* line 41
    cacheMutex,     \* line 42: the thread holding g_cacheMutex
    g_loading,      \* line 44
    g_stopThreads,  \* line 45
    g_frameIndex,   \* line 46
    timerOn,        \* the timer g_gifTimerId is set (SetTimer / KillTimer)
    display,        \* what the running WM_PAINT drew onto the back buffer
    uiPc,           \* UI thread: where it is
    uiMsg,          \* UI thread: the message being handled
    uiCall,         \* UI thread: the caller of the running GetBitmapAt
    uiP,            \* GetBitmapAt: p
    uiBmp,          \* GetBitmapAt: the shared_ptr decoded or returned
    uiFiles,        \* EnumFiles: files
    bgPc,           \* loader thread: where it is
    bgIdx,          \* BackgroundLoader: idx
    bgN,            \* PreloadAround: n
    bgD,            \* PreloadAround: d
    bgI,            \* loadOne: i after line 156, in the last call
    bgDecoded,      \* loadOne: the last call has called Bitmap::FromFile
    bgP,            \* loadOne: the path p the last call read from g_files
    crashed,        \* the process died on an undefined read
    sinceTrim,      \* history: keys stored since the last trim finished
    evicted,        \* history: entries erased by the last trim
    bgStart,        \* history: g_files when the running PreloadAround began
    lastGot,        \* history: per path, the content GetBitmapAt returned
                    \* last, while the key has stayed in the cache
    rotCount,       \* the calls of RotateFlip so far
    fit,            \* CalcRectAndMatrix: its arguments and its result
    rt              \* harness: list length, start and current index, steps,
                    \* direction

vars == << disk, fileVer, g_rootPath, g_recursive, g_files, g_index, g_cache,
           cacheMutex, g_loading, g_stopThreads, g_frameIndex, timerOn, display,
           uiPc, uiMsg, uiCall, uiP, uiBmp, uiFiles,
           bgPc, bgIdx, bgN, bgD, bgI, bgDecoded, bgP, crashed, sinceTrim, evicted, bgStart,
           lastGot,
           rotCount, fit, rt >>

uiVars == << uiPc, uiMsg, uiCall, uiP, uiBmp, uiFiles >>
bgVars == << bgPc, bgIdx, bgN, bgD, bgI, bgDecoded, bgP >>
histVars == << sinceTrim, evicted, bgStart >>

\* PreloadAround is not running
NoStart == [files |-> << >>, replacing |-> FALSE]
fileVars == << fileVer, g_rootPath, g_recursive, g_files >>

NoRt == [n |-> 0, start |-> 0, cur |-> 0, steps |-> 0, dir |-> "none"]

(***************************************************************************)
(* Gdiplus::Matrix: the six elements of an affine map of row vectors,      *)
(* (x, y) |-> (x*m11 + y*m21 + dx, x*m12 + y*m22 + dy).  The centre of a   *)
(* rectangle has halves in its coordinates, so offsets and points are kept *)
(* doubled: dx2 = 2 * dx.  Rotations are by quarter turns, whose sine and  *)
(* cosine are taken as exactly 0, 1 or -1.                                 *)
(***************************************************************************)
Identity == [m11 |-> 1, m12 |-> 0, m21 |-> 0, m22 |-> 1, dx2 |-> 0, dy2 |-> 0]

\* the matrix product a * b: a is applied to the point first
Multiply(a, b) ==
    [m11 |-> a.m11 * b.m11 + a.m12 * b.m21,
     m12 |-> a.m11 * b.m12 + a.m12 * b.m22,
     m21 |-> a.m21 * b.m11 + a.m22 * b.m21,
     m22 |-> a.m21 * b.m12 + a.m22 * b.m22,
     dx2 |-> a.dx2 * b.m11 + a.dy2 * b.m21 + b.dx2,
     dy2 |-> a.dx2 * b.m12 + a.dy2 * b.m22 + b.dy2]

\* Matrix::Scale, Matrix::Translate and Matrix::RotateAt in the default
\* order MatrixOrderPrepend: the new operation is applied to the point
\* before the matrix built so far
Scale(mx, sx, sy) ==
    Multiply([m11 |-> sx, m12 |-> 0, m21 |-> 0, m22 |-> sy,
              dx2 |-> 0, dy2 |-> 0], mx)

Translate(mx, tx2, ty2) ==
    Multiply([m11 |-> 1, m12 |-> 0, m21 |-> 0, m22 |-> 1,
              dx2 |-> tx2, dy2 |-> ty2], mx)

\* the rotation by q quarter turns, q in 1 .. 3
Rotation(q) ==
    LET c == IF q = 2 THEN 0 - 1 ELSE 0
        sn == IF q = 1 THEN 1 ELSE IF q = 3 THEN 0 - 1 ELSE 0
    IN  [m11 |-> c, m12 |-> sn, m21 |-> 0 - sn, m22 |-> c,
         dx2 |-> 0, dy2 |-> 0]

RotateAt(mx, q, cx2, cy2) ==
    Translate(Multiply(Rotation(q), Translate(mx, cx2, cy2)),
              0 - cx2, 0 - cy2)

\* the image of the point (x2 / 2, y2 / 2), doubled
Transform(mx, x2, y2) ==
    << x2 * mx.m11 + y2 * mx.m21 + mx.dx2,
       x2 * mx.m12 + y2 * mx.m22 + mx.dy2 >>

\* CalcRectAndMatrix was not called
NoFit == [w |-> 0, h |-> 0, ww |-> 0, wh |-> 0, zoom |-> 0, orient |-> 1,
          done |-> FALSE, X |-> 0, Y |-> 0, Width |-> 0, Height |-> 0,
          mx |-> Identity]

(***************************************************************************)
(* wWinMain up to the creation of the window: the root path and the        *)
(* recursive flag come from the registry or the command line, EnumFiles    *)
(* has run (line 1087), no thread is started and the cache is empty.       *)
(***************************************************************************)
InitOn(d) ==
    /\ disk = d
    /\ fileVer = [p \in Paths |-> 0]
    /\ g_rootPath \in Roots
    /\ g_recursive \in BOOLEAN
    /\ g_files = Listing(d, g_rootPath, g_recursive)
    /\ g_index = 0
    /\ g_cache = EmptyCache
    /\ cacheMutex = "none"
    /\ g_loading = FALSE
    /\ g_stopThreads = FALSE
    /\ g_frameIndex = 0
    /\ timerOn = FALSE
    /\ display = "blank"
    /\ uiPc = "start"
    /\ uiMsg = "WM_CREATE"
    /\ uiCall = "none"
    /\ uiP = Garbage
    /\ uiBmp = NoBmp
    /\ uiFiles = << >>
    /\ bgPc = "off"
    /\ bgIdx = 0
    /\ bgN = 0
    /\ bgD = 0
    /\ bgI = 0
    /\ bgDecoded = FALSE
    /\ bgP = Garbage
    /\ crashed = FALSE
    /\ sinceTrim = 0
    /\ evicted = 0
    /\ bgStart = NoStart
    /\ lastGot = [p \in Paths |-> NoContent]
    /\ rotCount = 0

Init == InitOn(SmallDisk) /\ rt = NoRt /\ fit = NoFit

\* the process is alive
Running == ~crashed /\ uiPc # "exited"

(***************************************************************************)
(* GetBitmapAt, lines 244-252: under g_filesMutex (which only the UI       *)
(* thread ever takes) the index is normalised and the path copied.         *)
(***************************************************************************)
GetPath(files, idx) == files[Norm(idx, Len(files)) + 1]

CallGet(caller, files, idx) ==
    /\ uiCall' = caller
    /\ uiP' = GetPath(files, idx)
    /\ uiBmp' = NoBmp
    /\ uiPc' = "lookup"

\* the handler is over: back in the message loop, the locals are gone
ToIdle ==
    /\ uiPc' = "idle"
    /\ uiMsg' = "none"
    /\ uiCall' = "none"
    /\ uiP' = Garbage
    /\ uiBmp' = NoBmp

(***************************************************************************)
(* WM_CREATE, lines 863-866: UpdateInfoLabel, then g_loading = true and    *)
(* StartBackground.  UpdateInfoLabel (lines 492-503) calls GetBitmapAt     *)
(* through LoadNextBitmap and GetBitmapInfo when g_files is not empty.     *)
(***************************************************************************)
StartBackground ==
    /\ g_loading' = TRUE
    /\ g_stopThreads' = FALSE
    /\ bgPc' = "loop"

WmCreate ==
    /\ Running
    /\ uiPc = "start"
    /\ IF Len(g_files) = 0
       THEN /\ StartBackground
            /\ ToIdle
            /\ UNCHANGED << bgIdx, bgN, bgD, bgI, bgDecoded, bgP >>
       ELSE /\ CallGet("GetBitmapInfo", g_files, g_index)
            /\ UNCHANGED << g_loading, g_stopThreads, uiMsg, bgVars >>
    /\ UNCHANGED << disk, lastGot, rotCount, fit, fileVars, g_index, g_cache, cacheMutex, g_frameIndex,
                    timerOn, display, uiFiles, crashed, histVars, rt >>

(***************************************************************************)
(* ShowImageAtIndex, lines 792-802, up to the call of GetBitmapAt made by  *)
(* QueueNextFrame (lines 773-775).                                         *)
(***************************************************************************)
ShowImageAtIndex(msg, index) ==
    /\ Running
    /\ uiPc = "idle"
    /\ IF Len(g_files) = 0
       THEN UNCHANGED << g_index, g_frameIndex, uiPc, uiMsg, uiCall, uiP, uiBmp >>
       ELSE /\ uiMsg' = msg
            /\ g_index' = ShowIndex(index, Len(g_files))
            /\ g_frameIndex' = 0
            /\ CallGet("QueueNextFrame", g_files, g_index')
    /\ UNCHANGED << disk, lastGot, rotCount, fit, fileVars, g_cache, cacheMutex, g_loading, g_stopThreads,
                    timerOn, display, uiFiles, bgVars, crashed, histVars >>

\* lines 804-805, reached from WM_COMMAND 101/102 and WM_KEYDOWN
PrevImage == ShowImageAtIndex("prev", g_index - 1) /\ UNCHANGED rt

NextImage == ShowImageAtIndex("next", g_index + 1) /\ UNCHANGED rt

\* ShowImageAtIndex with an arbitrary argument
JumpImage ==
    \E k \in (0 - MaxJump) .. MaxJump :
        ShowImageAtIndex("jump", k) /\ UNCHANGED rt

(***************************************************************************)
(* WM_PAINT of the panel: DrawImageOntoBackbuffer, lines 379-386.          *)
(***************************************************************************)
PaintImageNoEmptyTest ==
    /\ Running
    /\ uiPc = "idle"
    /\ IF Len(g_files) = 0
       THEN /\ display' = "Error loading image"
            /\ uiPc' = "present"
            /\ UNCHANGED << uiCall, uiP, uiBmp >>
       ELSE /\ CallGet("Draw", g_files, g_index)
            /\ UNCHANGED display
    /\ uiMsg' = "WM_PAINT"
    /\ UNCHANGED << disk, lastGot, rotCount, fit, fileVars, g_index, g_cache, cacheMutex, g_loading,
                    g_stopThreads, g_frameIndex, timerOn, uiFiles, bgVars,
                    crashed, histVars, rt >>

PaintImage ==
    /\ Running
    /\ uiPc = "idle"
    /\ IF Len(g_files) = 0
       THEN /\ display' = "No image found"
            /\ uiPc' = "present"
            /\ UNCHANGED << uiCall, uiP, uiBmp >>
       ELSE /\ CallGet("Draw", g_files, g_index)
            /\ UNCHANGED display
    /\ uiMsg' = "WM_PAINT"
    /\ UNCHANGED << disk, lastGot, rotCount, fit, fileVars, g_index, g_cache, cacheMutex, g_loading,
                    g_stopThreads, g_frameIndex, timerOn, uiFiles, bgVars,
                    crashed, histVars, rt >>

(***************************************************************************)
(* WM_TIMER, lines 949-954: QueueNextFrame, lines 771-790.                 *)
(***************************************************************************)
WmTimer ==
    /\ Running
    /\ uiPc = "idle"
    /\ timerOn
    /\ IF Len(g_files) = 0
       THEN /\ timerOn' = FALSE
            /\ UNCHANGED << uiPc, uiMsg, uiCall, uiP, uiBmp >>
       ELSE /\ uiMsg' = "WM_TIMER"
            /\ CallGet("QueueNextFrame", g_files, g_index)
            /\ UNCHANGED timerOn
    /\ UNCHANGED << disk, lastGot, rotCount, fit, fileVars, g_index, g_cache, cacheMutex, g_loading,
                    g_stopThreads, g_frameIndex, display, uiFiles, bgVars,
                    crashed, histVars, rt >>

(***************************************************************************)
(* GetBitmapAt, lines 254-258: the lookup under g_cacheMutex.              *)
(***************************************************************************)
UiLookup ==
    /\ Running
    /\ uiPc = "lookup"
    /\ cacheMutex = "none"
    /\ IF g_cache[uiP] # NoBmp
       THEN /\ uiBmp' = g_cache[uiP]
            /\ uiPc' = "ret"
       ELSE /\ uiBmp' = NoBmp
            /\ uiPc' = "decode"
    /\ UNCHANGED << disk, lastGot, rotCount, fit, fileVars, g_index, g_cache, cacheMutex, g_loading,
                    g_stopThreads, g_frameIndex, timerOn, display, uiMsg, uiCall,
                    uiP, uiFiles, bgVars, crashed, histVars, rt >>

(***************************************************************************)
(* GetBitmapAt, lines 261-264 and 271-272: the decode, no mutex held.      *)
\* GetBitmapAt gives up on a miss: it leaves the decode to the loader
UiDecodeNoFallback ==
    /\ Running
    /\ uiPc = "decode"
    /\ uiBmp' = NoBmp
    /\ uiPc' = "ret"
    /\ UNCHANGED << disk, lastGot, rotCount, fit, fileVars, g_index, g_cache, cacheMutex, g_loading,
                    g_stopThreads, g_frameIndex, timerOn, display, uiMsg, uiCall,
                    uiP, uiFiles, bgVars, crashed, histVars, rt >>

(***************************************************************************)
UiDecode ==
    /\ Running
    /\ uiPc = "decode"
    /\ IF DecodeOk(disk, uiP)
       THEN /\ uiBmp' = FreshBmp({g_cache[uiP]} \ {NoBmp}, fileVer[uiP])
            /\ uiPc' = "insert"
       ELSE /\ uiBmp' = NoBmp
            /\ uiPc' = "ret"
    /\ UNCHANGED << disk, lastGot, rotCount, fit, fileVars, g_index, g_cache, cacheMutex, g_loading,
                    g_stopThreads, g_frameIndex, timerOn, display, uiMsg, uiCall,
                    uiP, uiFiles, bgVars, crashed, histVars, rt >>

(***************************************************************************)
(* GetBitmapAt, lines 265-269: g_cache[p] = sp under g_cacheMutex.         *)
(***************************************************************************)
UiInsert ==
    /\ Running
    /\ uiPc = "insert"
    /\ cacheMutex = "none"
    /\ g_cache' = [g_cache EXCEPT ![uiP] = uiBmp]
    /\ sinceTrim' = IF g_cache[uiP] = NoBmp THEN sinceTrim + 1 ELSE sinceTrim
    /\ uiPc' = "ret"
    /\ UNCHANGED << disk, lastGot, rotCount, fit, fileVars, g_index, cacheMutex, g_loading, g_stopThreads,
                    g_frameIndex, timerOn, display, uiMsg, uiCall, uiP, uiBmp,
                    uiFiles, bgVars, crashed, evicted, bgStart, rt >>

(***************************************************************************)
(* The caller of GetBitmapAt goes on with the bitmap it got:               *)
(*   QueueNextFrame, lines 776-789, then (inside ShowImageAtIndex)         *)
(*     UpdateInfoLabel, line 800, which calls GetBitmapAt again;           *)
(*   GetBitmapInfo, lines 448-460 (and the rest of WM_CREATE);             *)
(*   Rotate90AndResave, line 706;                                          *)
(*   DrawImageOntoBackbuffer, lines 387-398.                               *)
(***************************************************************************)
(* Rotate90AndResave has returned: WM_COMMAND 108 goes on with EnumFiles   *)
(* (lines 924-926, up to the move assignment), WM_KEYDOWN is over (lines   *)
(* 979-980).                                                               *)
(***************************************************************************)
RotateDone(msg) ==
    /\ uiCall' = "none"
    /\ uiP' = Garbage
    /\ uiBmp' = NoBmp
    /\ IF msg = "rotate_cmd"
       THEN /\ uiMsg' = msg
            /\ uiFiles' = Listing(disk, g_rootPath, g_recursive)
            /\ uiPc' = "enum_move"
       ELSE /\ uiMsg' = "none"
            /\ uiPc' = "idle"
            /\ UNCHANGED uiFiles

(***************************************************************************)
(* Rotate90AndResave, lines 700-705: nothing on an empty list, else        *)
(* GetBitmapAt(g_index).                                                   *)
(***************************************************************************)
RotateBegin(msg) ==
    /\ Running
    /\ uiPc = "idle"
    /\ rotCount < RotBudget
    /\ IF Len(g_files) = 0
       THEN RotateDone(msg)
       ELSE /\ uiMsg' = msg
            /\ CallGet("Rotate", g_files, g_index)
            /\ UNCHANGED uiFiles
    /\ UNCHANGED << disk, lastGot, rotCount, fit, fileVars, g_index, g_cache,
                    cacheMutex, g_loading, g_stopThreads, g_frameIndex, timerOn,
                    display, bgVars, crashed, histVars, rt >>

\* WM_COMMAND 108, lines 922-923
RotateCmd == RotateBegin("rotate_cmd")

\* WM_KEYDOWN VK_OEM_COMMA and VK_OEM_PERIOD, lines 979-980
RotateKey == RotateBegin("rotate_key")

(***************************************************************************)
(* Rotate90AndResave, lines 709-724: RotateFlip turns the bitmap that      *)
(* GetBitmapAt returned, which is the object the cache holds; Save writes  *)
(* it to a temporary file and, when that succeeded, MoveFileExW (whose     *)
(* result is not looked at) puts it in the place of the file.              *)
(***************************************************************************)
RotSave ==
    /\ Running
    /\ uiPc = "rot_save"
    /\ LET turned == [uiBmp EXCEPT !.rot = @ + 1]
       IN  /\ g_cache' = IF g_cache[uiP].inst = uiBmp.inst
                         THEN [g_cache EXCEPT ![uiP] = turned]
                         ELSE g_cache
           /\ rotCount' = rotCount + 1
           /\ \E saved \in BOOLEAN, moved \in BOOLEAN :
                 IF saved
                 THEN /\ fileVer' = IF moved
                                    THEN [fileVer EXCEPT ![uiP] = Content(turned)]
                                    ELSE fileVer
                      /\ uiBmp' = turned
                      /\ uiPc' = "rot_erase"
                      /\ UNCHANGED << uiMsg, uiCall, uiP, uiFiles >>
                 ELSE /\ UNCHANGED fileVer
                      /\ uiBmp' = NoBmp
                      /\ uiCall' = "none"
                      /\ uiP' = Garbage
                      /\ IF uiMsg = "rotate_cmd"
                         THEN /\ uiFiles' = Listing(disk, g_rootPath, g_recursive)
                              /\ uiPc' = "enum_move"
                              /\ UNCHANGED uiMsg
                         ELSE /\ uiMsg' = "none"
                              /\ uiPc' = "idle"
                              /\ UNCHANGED uiFiles
    /\ UNCHANGED << disk, lastGot, fit, g_rootPath, g_recursive, g_files, g_index,
                    cacheMutex, g_loading, g_stopThreads, g_frameIndex, timerOn,
                    display, bgVars, crashed, histVars, rt >>

(***************************************************************************)
(* Rotate90AndResave, lines 727-729: g_cache.erase(p) under g_cacheMutex.  *)
(***************************************************************************)
RotEraseNoErase ==
    /\ Running
    /\ uiPc = "rot_erase"
    /\ cacheMutex = "none"
    /\ RotateDone(uiMsg)
    /\ UNCHANGED << disk, lastGot, rotCount, fit, fileVars, g_index, g_cache,
                    cacheMutex, g_loading, g_stopThreads, g_frameIndex, timerOn,
                    display, bgVars, crashed, histVars, rt >>

RotErase ==
    /\ Running
    /\ uiPc = "rot_erase"
    /\ cacheMutex = "none"
    /\ g_cache' = [g_cache EXCEPT ![uiP] = NoBmp]
    /\ lastGot' = [lastGot EXCEPT ![uiP] = NoContent]
    /\ RotateDone(uiMsg)
    /\ UNCHANGED << disk, rotCount, fit, fileVars, g_index, cacheMutex, g_loading,
                    g_stopThreads, g_frameIndex, timerOn, display, bgVars,
                    crashed, histVars, rt >>

(***************************************************************************)
UiReturn ==
    /\ Running
    /\ uiPc = "ret"
    /\ lastGot' = [lastGot EXCEPT ![uiP] =
                      IF uiBmp # NoBmp /\ g_cache[uiP] # NoBmp
                      THEN Content(uiBmp) ELSE @]
    /\ CASE uiCall = "QueueNextFrame" ->
              LET fc == IF uiBmp = NoBmp THEN 1 ELSE FrameCount(uiP)
              IN  /\ g_frameIndex' = IF fc > 1 THEN (g_frameIndex + 1) % fc
                                     ELSE g_frameIndex
                  /\ timerOn' = (fc > 1)
                  /\ IF uiMsg = "WM_TIMER"
                     THEN ToIdle
                     ELSE /\ CallGet("GetBitmapInfo", g_files, g_index)
                          /\ UNCHANGED uiMsg
                  /\ UNCHANGED << display, g_loading, g_stopThreads, bgPc,
                                  uiFiles >>
         [] uiCall = "GetBitmapInfo" ->
                  /\ ToIdle
                  /\ IF uiMsg = "WM_CREATE"
                     THEN StartBackground
                     ELSE UNCHANGED << g_loading, g_stopThreads, bgPc >>
                  /\ UNCHANGED << display, g_frameIndex, timerOn, uiFiles >>
         [] uiCall = "Rotate" ->
                  /\ IF uiBmp = NoBmp
                     THEN RotateDone(uiMsg)
                     ELSE /\ uiPc' = "rot_save"
                          /\ UNCHANGED << uiMsg, uiCall, uiP, uiBmp, uiFiles >>
                  /\ UNCHANGED << display, g_frameIndex, timerOn, g_loading,
                                  g_stopThreads, bgPc >>
         [] OTHER ->
                  /\ display' = IF uiBmp = NoBmp THEN "Error loading image"
                                ELSE "image"
                  /\ uiPc' = "present"
                  /\ UNCHANGED << g_frameIndex, timerOn, g_loading,
                                  g_stopThreads, bgPc, uiMsg, uiCall, uiP, uiBmp,
                                  uiFiles >>
    /\ UNCHANGED << disk, rotCount, fit, fileVars, g_index, g_cache, cacheMutex,
                    bgIdx, bgN, bgD, bgI, bgDecoded, bgP, crashed, histVars, rt >>

(***************************************************************************)
(* PaintImage, line 421: DrawBackbufferOntoScreen, lines 401-408, ends the *)
(* WM_PAINT.                                                               *)
(***************************************************************************)
PaintEnd ==
    /\ Running
    /\ uiPc = "present"
    /\ display' = "blank"
    /\ ToIdle
    /\ UNCHANGED << disk, lastGot, rotCount, fit, fileVars, g_index, g_cache, cacheMutex, g_loading,
                    g_stopThreads, g_frameIndex, timerOn, uiFiles, bgVars,
                    crashed, histVars, rt >>

(***************************************************************************)
(* EnumFiles, lines 122-144: the directory is listed into the local files, *)
(* g_filesMutex is taken and the move assignment of g_files begins.        *)
(***************************************************************************)
EnumBegin(msg, root, rec) ==
    /\ Running
    /\ uiPc = "idle"
    /\ uiMsg' = msg
    /\ g_rootPath' = root
    /\ g_recursive' = rec
    /\ uiFiles' = Listing(disk, root, rec)
    /\ uiPc' = "enum_move"
    /\ UNCHANGED << disk, lastGot, rotCount, fit, fileVer, g_files, g_index,
                    g_cache, cacheMutex, g_loading, g_stopThreads, g_frameIndex,
                    timerOn, display, uiCall, uiP, uiBmp, bgVars, crashed,
                    histVars, rt >>

\* WM_COMMAND 107, lines 910-916
ToggleRecursive == EnumBegin("toggle_recursive", g_rootPath, ~g_recursive)

\* WM_COMMAND 111, lines 939-941; ChooseRootDirectory (lines 49-79) keeps the
\* root when the dialog is cancelled
ChangeRoot == \E r \in Roots : EnumBegin("change_root", r, g_recursive)

(***************************************************************************)
(* EnumFiles, lines 144-147: the move assignment is done, the index is     *)
(* reset when out of range, the mutex released; then UpdateInfoLabel       *)
(* (lines 917, 942).                                                       *)
(***************************************************************************)
EnumEnd ==
    /\ Running
    /\ uiPc = "enum_move"
    /\ g_files' = uiFiles
    /\ g_index' = EnumIndex(g_index, Len(uiFiles))
    /\ uiFiles' = << >>
    /\ IF Len(uiFiles) = 0
       THEN ToIdle
       ELSE /\ CallGet("GetBitmapInfo", g_files', g_index')
            /\ UNCHANGED uiMsg
    /\ UNCHANGED << disk, lastGot, rotCount, fit, fileVer, g_rootPath,
                    g_recursive, g_cache, cacheMutex, g_loading, g_stopThreads,
                    g_frameIndex, timerOn, display, bgVars, crashed, histVars,
                    rt >>

(***************************************************************************)
(* DeleteCurrent, lines 679-696.  g_filesMutex is locked for the whole     *)
(* function (line 681): nothing on an empty list, else the MessageBox.     *)
(***************************************************************************)
DeleteBegin(msg) ==
    /\ Running
    /\ uiPc = "idle"
    /\ IF Len(g_files) = 0
       THEN ToIdle
       ELSE /\ uiMsg' = msg
            /\ uiPc' = "del_ask"
            /\ uiP' = g_files[g_index + 1]
            /\ UNCHANGED << uiCall, uiBmp >>
    /\ UNCHANGED << disk, lastGot, rotCount, fit, fileVars, g_index, g_cache,
                    cacheMutex, g_loading, g_stopThreads, g_frameIndex, timerOn,
                    display, uiFiles, bgVars, crashed, histVars, rt >>

\* WM_COMMAND 110, lines 933-937
DeleteCmd == DeleteBegin("delete_cmd")

\* WM_KEYDOWN VK_DELETE, lines 965-967
DeleteKey == DeleteBegin("delete_key")

(***************************************************************************)
(* DeleteCurrent, line 685: the answer is not IDYES; the function returns  *)
(* and g_filesMutex is released.  WM_COMMAND 110 goes on with              *)
(* UpdateInfoLabel (line 935).                                             *)
(***************************************************************************)
DeleteCancel ==
    /\ Running
    /\ uiPc = "del_ask"
    /\ IF uiMsg = "delete_cmd"
       THEN /\ CallGet("GetBitmapInfo", g_files, g_index)
            /\ UNCHANGED uiMsg
       ELSE ToIdle
    /\ UNCHANGED << disk, lastGot, rotCount, fit, fileVars, g_index, g_cache,
                    cacheMutex, g_loading, g_stopThreads, g_frameIndex, timerOn,
                    display, uiFiles, bgVars, crashed, histVars, rt >>

(***************************************************************************)
(* DeleteCurrent, lines 685-693: the answer is IDYES and SHFileOperationW  *)
(* moves the file to the recycle bin, or fails to; its result is not       *)
(* looked at.                                                              *)
(***************************************************************************)
DeleteConfirm ==
    /\ Running
    /\ uiPc = "del_ask"
    /\ \E deleted \in BOOLEAN :
          disk' = IF deleted THEN [disk EXCEPT !.gone = @ \cup {uiP}]
                  ELSE disk
    /\ uiPc' = "del_enum"
    /\ UNCHANGED << lastGot, rotCount, fit, fileVars, g_index, g_cache,
                    cacheMutex, g_loading, g_stopThreads, g_frameIndex, timerOn,
                    display, uiMsg, uiCall, uiP, uiBmp, uiFiles, bgVars,
                    crashed, histVars, rt >>

(***************************************************************************)
(* DeleteCurrent, line 694: EnumFiles lists the folder (lines 124-142) and *)
(* locks g_filesMutex (line 143), which this thread holds since line 681.  *)
(* Locking a std::mutex that the thread owns is undefined: the thread      *)
(* blocks for ever, or the lock throws and the process ends.               *)
(***************************************************************************)
DeleteEnum ==
    /\ Running
    /\ uiPc = "del_enum"
    /\ uiFiles' = Listing(disk, g_rootPath, g_recursive)
    /\ \/ /\ uiPc' = "del_relock"
          /\ UNCHANGED crashed
       \/ /\ crashed' = TRUE
          /\ UNCHANGED uiPc
    /\ UNCHANGED << disk, lastGot, rotCount, fit, fileVars, g_index, g_cache,
                    cacheMutex, g_loading, g_stopThreads, g_frameIndex, timerOn,
                    display, uiMsg, uiCall, uiP, uiBmp, bgVars, histVars, rt >>

(***************************************************************************)
(* WM_DESTROY, lines 1010-1014, and the teardown of wWinMain, lines        *)
(* 1124-1130: the cache is cleared under g_cacheMutex.  The loader thread  *)
(* is detached and is not joined; the process is gone when wWinMain has    *)
(* returned.                                                               *)
(***************************************************************************)
WmDestroy ==
    /\ Running
    /\ uiPc = "idle"
    /\ uiMsg' = "WM_DESTROY"
    /\ g_loading' = FALSE
    /\ g_stopThreads' = TRUE
    /\ uiPc' = "quit"
    /\ UNCHANGED << disk, lastGot, rotCount, fit, fileVars, g_index, g_cache, cacheMutex, g_frameIndex,
                    timerOn, display, uiCall, uiP, uiBmp, uiFiles, bgVars,
                    crashed, histVars, rt >>

Teardown ==
    /\ Running
    /\ uiPc = "quit"
    /\ cacheMutex = "none"
    /\ g_cache' = EmptyCache
    /\ lastGot' = [p \in Paths |-> NoContent]
    /\ uiPc' = "cleared"
    /\ UNCHANGED << disk, rotCount, fit, fileVars, g_index, cacheMutex, g_loading,
                    g_stopThreads, g_frameIndex, timerOn, display, uiMsg, uiCall,
                    uiP, uiBmp, uiFiles, bgVars, crashed, histVars, rt >>

\* lines 1131-1132: GdiplusShutdown, and wWinMain returns
Shutdown ==
    /\ Running
    /\ uiPc = "cleared"
    /\ uiPc' = "exited"
    /\ UNCHANGED << disk, lastGot, rotCount, fit, fileVars, g_index, g_cache,
                    cacheMutex, g_loading, g_stopThreads, g_frameIndex, timerOn,
                    display, uiMsg, uiCall, uiP, uiBmp, uiFiles, bgVars, crashed,
                    histVars, rt >>

(***************************************************************************)
(* BackgroundLoader, lines 277-284: the loop test and the read of g_index. *)
(***************************************************************************)
BgWakeNoStopTest ==
    /\ Running
    /\ bgPc = "loop"
    /\ IF ~g_loading
       THEN UNCHANGED << bgPc, bgIdx >>
       ELSE /\ bgIdx' = g_index
            /\ bgPc' = "enter"
    /\ UNCHANGED << disk, lastGot, rotCount, fit, fileVars, g_index, g_cache, cacheMutex, g_loading,
                    g_stopThreads, g_frameIndex, timerOn, display, uiVars, bgN,
                    bgD, bgI, bgDecoded, bgP, crashed, histVars, rt >>

BgWake ==
    /\ Running
    /\ bgPc = "loop"
    /\ IF g_stopThreads
       THEN /\ bgPc' = "exited"
            /\ UNCHANGED bgIdx
       ELSE IF ~g_loading
       THEN UNCHANGED << bgPc, bgIdx >>
       ELSE /\ bgIdx' = g_index
            /\ bgPc' = "enter"
    /\ UNCHANGED << disk, lastGot, rotCount, fit, fileVars, g_index, g_cache, cacheMutex, g_loading,
                    g_stopThreads, g_frameIndex, timerOn, display, uiVars, bgN,
                    bgD, bgI, bgDecoded, bgP, crashed, histVars, rt >>

(***************************************************************************)
(* The owner of g_filesMutex.  Every lock of it is a std::lock_guard, so   *)
(* the owner follows from the position of the UI thread: the mutex is held *)
(* through the move assignment of EnumFiles (lines 143-147), from the Save *)
(* of Rotate90AndResave to its erase (lines 719-730), and through the      *)
(* whole of DeleteCurrent (lines 681-696).  The short sections of          *)
(* GetBitmapAt (246-251) and of Rotate90AndResave (701-703) begin and end  *)
(* inside one step.  The loader thread never locks it.                     *)
(***************************************************************************)
FilesMutexOwner ==
    IF uiPc \in {"enum_move", "rot_erase", "del_ask", "del_enum", "del_relock"}
    THEN "ui" ELSE "none"

(***************************************************************************)
(* The lengths a read of g_files can see.  PreloadAround reads g_files     *)
(* under g_cacheMutex only, so the read races with the move assignment of  *)
(* EnumFiles: in the middle of it the vector looks old, new or empty.      *)
(***************************************************************************)
SeenLengths ==
    IF uiPc = "enum_move" THEN {Len(g_files), Len(uiFiles), 0}
    ELSE {Len(g_files)}

\* loadOne reads a list that it copied before the folder changed
SeenPathsStale(i) == DiskPaths(disk)

(***************************************************************************)
(* The results of the read g_files[i] of loadOne (line 157): the element,  *)
(* or, when the vector is being replaced or is shorter than the n read     *)
(* before, any path, a string that names no file, or a crash.              *)
(***************************************************************************)
SeenPaths(i) ==
    IF uiPc # "enum_move" /\ 0 <= i /\ i < Len(g_files) THEN {g_files[i + 1]}
    ELSE DiskPaths(disk) \cup {Garbage, Crash}

(***************************************************************************)
(* PreloadAround, lines 151-153: the mutex, the empty test and n.          *)
(***************************************************************************)
BgEnter ==
    /\ Running
    /\ bgPc = "enter"
    /\ cacheMutex = "none"
    /\ \E e \in SeenLengths, n \in SeenLengths :
          IF e = 0
          THEN /\ bgPc' = "loop"
               /\ bgIdx' = 0
               /\ UNCHANGED << cacheMutex, bgN, bgD, crashed >>
          ELSE IF n = 0
          THEN /\ crashed' = TRUE
               /\ UNCHANGED << cacheMutex, bgPc, bgIdx, bgN, bgD >>
          ELSE /\ cacheMutex' = "bg"
               /\ bgN' = n
               /\ bgD' = 0 - Window
               /\ bgPc' = "load"
               /\ UNCHANGED << bgIdx, crashed >>
    /\ bgI' = 0
    /\ bgDecoded' = FALSE
    /\ bgP' = Garbage
    /\ bgStart' = IF bgPc' = "load"
                  THEN [files |-> g_files, replacing |-> uiPc = "enum_move"]
                  ELSE NoStart
    /\ UNCHANGED << disk, lastGot, rotCount, fit, fileVars, g_index, g_cache,
                    g_loading, g_stopThreads, g_frameIndex, timerOn, display,
                    uiVars, sinceTrim, evicted, rt >>

(***************************************************************************)
(* PreloadAround, lines 154-167: one call loadOne(idx + d).                *)
(***************************************************************************)
BgLoadOne ==
    /\ Running
    /\ bgPc = "load"
    /\ bgI' = Norm(bgIdx + bgD, bgN)
    /\ \E p \in SeenPaths(bgI') :
          IF p = Crash
          THEN /\ crashed' = TRUE
               /\ UNCHANGED << g_cache, sinceTrim, bgPc, bgD, bgDecoded, bgP >>
          ELSE /\ g_cache' = LoadOne(disk, g_cache, p,
                                      IF uiP = p THEN {uiBmp} \ {NoBmp} ELSE {},
                                      fileVer)
               /\ sinceTrim' = IF g_cache' # g_cache THEN sinceTrim + 1
                               ELSE sinceTrim
               /\ bgDecoded' = (p \notin Paths \/ g_cache[p] = NoBmp)
               /\ bgP' = p
               /\ bgD' = IF bgD = Window THEN 0 ELSE bgD + 1
               /\ bgPc' = IF bgD = Window THEN "trim" ELSE "load"
               /\ UNCHANGED crashed
    /\ UNCHANGED << disk, lastGot, rotCount, fit, fileVars, g_index, cacheMutex,
                    g_loading, g_stopThreads, g_frameIndex, timerOn, display,
                    uiVars, bgIdx, bgN, evicted, bgStart, rt >>

\* PreloadAround returns with g_cacheMutex still locked
BgTrimKeepsMutex ==
    /\ Running
    /\ bgPc = "trim"
    /\ g_cache' = Trim(g_cache)
    /\ evicted' = CacheSize(g_cache) - CacheSize(g_cache')
    /\ sinceTrim' = 0
    /\ bgStart' = NoStart
    /\ bgPc' = "loop"
    /\ bgIdx' = 0
    /\ bgN' = 0
    /\ bgI' = 0
    /\ bgDecoded' = FALSE
    /\ bgP' = Garbage
    /\ lastGot' = [p \in Paths |-> IF g_cache'[p] = NoBmp THEN NoContent
                                   ELSE lastGot[p]]
    /\ UNCHANGED << disk, cacheMutex, rotCount, fit, fileVars, g_index, g_loading,
                    g_stopThreads, g_frameIndex, timerOn, display, uiVars, bgD,
                    crashed, rt >>

(***************************************************************************)
(* PreloadAround, lines 168-174: the trim loop and the release of the      *)
(* mutex; then the sleep of BackgroundLoader (line 286).                   *)
(***************************************************************************)
BgTrim ==
    /\ Running
    /\ bgPc = "trim"
    /\ g_cache' = Trim(g_cache)
    /\ evicted' = CacheSize(g_cache) - CacheSize(g_cache')
    /\ sinceTrim' = 0
    /\ bgStart' = NoStart
    /\ cacheMutex' = "none"
    /\ bgPc' = "loop"
    /\ bgIdx' = 0
    /\ bgN' = 0
    /\ bgI' = 0
    /\ bgDecoded' = FALSE
    /\ bgP' = Garbage
    /\ lastGot' = [p \in Paths |-> IF g_cache'[p] = NoBmp THEN NoContent
                                   ELSE lastGot[p]]
    /\ UNCHANGED << disk, rotCount, fit, fileVars, g_index, g_loading,
                    g_stopThreads, g_frameIndex, timerOn, display, uiVars, bgD,
                    crashed, rt >>

Next ==
    \/ WmCreate
    \/ PrevImage
    \/ NextImage
    \/ JumpImage
    \/ PaintImage
    \/ WmTimer
    \/ UiLookup
    \/ UiDecode
    \/ UiInsert
    \/ UiReturn
    \/ PaintEnd
    \/ ToggleRecursive
    \/ ChangeRoot
    \/ EnumEnd
    \/ WmDestroy
    \/ Teardown
    \/ Shutdown
    \/ BgWake
    \/ BgEnter
    \/ BgLoadOne
    \/ BgTrim

Spec == Init /\ [][Next]_vars

(***************************************************************************)
(* The loader thread is scheduled again and again as long as the process   *)
(* lives: each of its steps is taken when it stays possible.  Nothing is   *)
(* assumed of the UI thread, which waits for messages.                     *)
(***************************************************************************)
SpecLive ==
    /\ Init
    /\ [][Next]_vars
    /\ WF_vars(BgWake)
    /\ WF_vars(BgEnter)
    /\ WF_vars(BgLoadOne)
    /\ WF_vars(BgTrim)

(***************************************************************************)
(* The viewer started on the large folder: the user pages forward while    *)
(* the loader thread runs.                                                 *)
(***************************************************************************)
InitTrim ==
    InitOn(LargeDisk) /\ g_rootPath = "images" /\ ~g_recursive /\ rt = NoRt /\ fit = NoFit

\* NextImage, at most PageBudget times
PageNext ==
    /\ rt.steps < PageBudget
    /\ ShowImageAtIndex("next", g_index + 1)
    /\ rt' = [rt EXCEPT !.steps = rt.steps + 1]

NextTrim ==
    \/ WmCreate
    \/ PageNext
    \/ UiLookup
    \/ UiDecode
    \/ UiInsert
    \/ UiReturn
    \/ BgWake
    \/ BgEnter
    \/ BgLoadOne
    \/ BgTrim

SpecTrim == InitTrim /\ [][NextTrim]_vars

(***************************************************************************)
(* The index arithmetic of ShowImageAtIndex alone: on a list of rt.n       *)
(* files, from the index rt.start, NextImage (or PrevImage) is applied     *)
(* rt.n times.                                                             *)
(***************************************************************************)
InitNav ==
    /\ InitOn(SmallDisk)
    /\ g_rootPath = "empty"
    /\ ~g_recursive
    /\ fit = NoFit
    /\ \E n \in 1 .. RtMaxLen, i \in 0 .. (RtMaxLen - 1), d \in {"next", "prev"} :
          /\ i < n
          /\ rt = [n |-> n, start |-> i, cur |-> i, steps |-> 0, dir |-> d]

RtStep(d, delta) ==
    /\ rt.dir = d
    /\ rt.steps < rt.n
    /\ rt' = [rt EXCEPT !.cur = ShowIndex(rt.cur + delta, rt.n),
                        !.steps = rt.steps + 1]
    /\ UNCHANGED << disk, lastGot, rotCount, fit, fileVars, g_index, g_cache, cacheMutex, g_loading,
                    g_stopThreads, g_frameIndex, timerOn, display, uiVars,
                    bgVars, crashed, histVars >>

RtNext == RtStep("next", 1)

RtPrev == RtStep("prev", 0 - 1)

NextNav ==
    \/ RtNext
    \/ RtPrev

SpecNav == InitNav /\ [][NextNav]_vars

(***************************************************************************)
(* The viewer with the rotate command: started on the small folder, the    *)
(* user pages forward, rotates the current image (button or key) and the   *)
(* panel is painted, while the loader thread runs.                         *)
(***************************************************************************)
InitRot == Init /\ g_rootPath = "images" /\ ~g_recursive

NextRot ==
    \/ WmCreate
    \/ NextImage
    \/ PaintImage
    \/ UiLookup
    \/ UiDecode
    \/ UiInsert
    \/ UiReturn
    \/ PaintEnd
    \/ RotateCmd
    \/ RotateKey
    \/ RotSave
    \/ RotErase
    \/ EnumEnd
    \/ BgWake
    \/ BgEnter
    \/ BgLoadOne
    \/ BgTrim

SpecRot == InitRot /\ [][NextRot]_vars

\* the same, with the loader thread scheduled fairly
SpecRotLive ==
    /\ InitRot
    /\ [][NextRot]_vars
    /\ WF_vars(BgWake)
    /\ WF_vars(BgEnter)
    /\ WF_vars(BgLoadOne)
    /\ WF_vars(BgTrim)

(***************************************************************************)
(* The viewer started on the large folder: the user pages backward and the *)
(* panel is painted, while the loader thread runs.                         *)
(***************************************************************************)

\* PrevImage, at most BackBudget times
PagePrev ==
    /\ rt.steps < BackBudget
    /\ ShowImageAtIndex("prev", g_index - 1)
    /\ rt' = [rt EXCEPT !.steps = rt.steps + 1]

NextBack ==
    \/ WmCreate
    \/ PagePrev
    \/ PaintImage
    \/ UiLookup
    \/ UiDecode
    \/ UiInsert
    \/ UiReturn
    \/ PaintEnd
    \/ BgWake
    \/ BgEnter
    \/ BgLoadOne
    \/ BgTrim

SpecBack == InitTrim /\ [][NextBack]_vars

(***************************************************************************)
(* The viewer with the delete command: started on the small folder, the    *)
(* user pages forward and deletes the current image (button or key), while *)
(* the loader thread runs.                                                 *)
(***************************************************************************)
NextDel ==
    \/ WmCreate
    \/ NextImage
    \/ UiLookup
    \/ UiDecode
    \/ UiInsert
    \/ UiReturn
    \/ DeleteCmd
    \/ DeleteKey
    \/ DeleteCancel
    \/ DeleteConfirm
    \/ DeleteEnum
    \/ BgWake
    \/ BgEnter
    \/ BgLoadOne
    \/ BgTrim

SpecDel == Init /\ [][NextDel]_vars

(***************************************************************************)
(* The prefetch window: the viewer started on a folder of 0 .. WinMaxLen   *)
(* files that is not listed again; the user pages forward while the        *)
(* loader thread runs.                                                     *)
(***************************************************************************)
InitWin ==
    /\ \E n \in 0 .. WinMaxLen : InitOn(Folder(n))
    /\ g_rootPath = "images"
    /\ ~g_recursive
    /\ rt = NoRt
    /\ fit = NoFit

NextWin ==
    \/ WmCreate
    \/ NextImage
    \/ UiLookup
    \/ UiDecode
    \/ UiInsert
    \/ UiReturn
    \/ BgWake
    \/ BgEnter
    \/ BgLoadOne
    \/ BgTrim

SpecWin == InitWin /\ [][NextWin]_vars

(***************************************************************************)
(* Properties.                                                             *)
(***************************************************************************)

\* C1: in every reachable state the index is a position of the file list
\* when the list is not empty, and is 0 when the list is empty.
C1_IndexInRange ==
    /\ Len(g_files) > 0 => (0 <= g_index /\ g_index < Len(g_files))
    /\ Len(g_files) = 0 => g_index = 0

\* a jump has put the index on the last file of the recursive listing
C1_Witness ==
    /\ uiMsg = "jump"
    /\ Len(g_files) = NSmall + 1
    /\ g_index = NSmall

\* C2: NextImage applied N times on a list of N files, with no replacement
\* of the list in between, brings the index back to where it started, and
\* so does PrevImage applied N times.
C2_RoundTrip == rt.steps = rt.n => rt.cur = rt.start

C2_Witness ==
    /\ rt.n = 3
    /\ rt.steps = rt.n
    /\ rt.dir = "prev"
    /\ rt.start = 1

\* C3: on a list of N files NextImage stores (i + 1) mod N and PrevImage
\* stores (i - 1) mod N.
C3_ModularStep ==
    [][ (uiPc = "idle" /\ uiPc' = "lookup" /\ uiMsg' \in {"next", "prev"}) =>
          /\ uiMsg' = "next" => g_index' = (g_index + 1) % Len(g_files)
          /\ uiMsg' = "prev" =>
                g_index' = (g_index + Len(g_files) - 1) % Len(g_files) ]_vars

\* PrevImage at index 0 of a list of three files has stored index 2
C3_Witness ==
    /\ uiMsg = "prev"
    /\ uiCall = "QueueNextFrame"
    /\ uiPc = "lookup"
    /\ Len(g_files) = 3
    /\ g_index = 2

\* C4: while the file list is empty no step changes the index (which is 0)
\* or the frame counter, no step calls GetBitmapAt or gets a bitmap, a paint
\* draws the text "No image found", and the list becomes non-empty only by
\* the end of a replacement by EnumFiles.
C4_EmptyInert ==
    [][ Len(g_files) = 0 =>
          /\ g_index = 0
          /\ g_index' = g_index
          /\ g_frameIndex' = g_frameIndex
          /\ uiBmp' = NoBmp
          /\ uiPc' \notin {"lookup", "decode", "insert", "ret"} \/ uiPc = "enum_move"
          /\ (uiPc = "idle" /\ uiMsg' = "WM_PAINT") =>
                (display' = "No image found" /\ uiPc' = "present")
          /\ display' \in {"blank", "No image found"}
          /\ Len(g_files') # 0 => (uiPc = "enum_move" /\ g_files' = uiFiles) ]_vars

\* the panel was painted while the list is empty
C4_Witness ==
    /\ Len(g_files) = 0
    /\ uiPc = "present"
    /\ display = "No image found"
    /\ bgPc = "loop"

\* C5: when EnumFiles has replaced the list by one of length L, the index is
\* 0 if it was >= L (or L = 0) and is unchanged if it was < L.
C5_ReplaceIndex ==
    [][ (uiPc = "enum_move" /\ uiPc' # "enum_move") =>
          /\ g_files' = uiFiles
          /\ g_index' = IF Len(g_files') = 0 \/ g_index >= Len(g_files')
                        THEN 0 ELSE g_index ]_vars

\* EnumFiles is replacing the list by a shorter one that the index is
\* outside of
C5_Witness ==
    /\ uiPc = "enum_move"
    /\ Len(uiFiles) > 0
    /\ g_index >= Len(uiFiles)

\* C6: every step that changes the index sets the frame counter to 0.
C6_FrameResetOnIndexChange ==
    [][ g_index' # g_index => g_frameIndex' = 0 ]_vars

\* C7: the cache holds no key whose decode fails; GetBitmapAt returns the
\* cached bitmap when the path is a key, else decodes, stores the bitmap on
\* success and returns it, and returns null exactly when the decode fails.
C7_GetContract ==
    /\ [](\A p \in Keys(g_cache) : DecodeOk(disk, p))
    /\ [](uiPc = "ret" => (uiBmp = NoBmp <=> ~DecodeOk(disk, uiP)))
    /\ [][ /\ (uiPc = "lookup" /\ uiPc' # "lookup") =>
               IF g_cache[uiP] # NoBmp
               THEN uiPc' = "ret" /\ uiBmp' = g_cache[uiP] /\ g_cache' = g_cache
               ELSE uiPc' = "decode" /\ g_cache' = g_cache
           /\ (uiPc = "decode" /\ uiPc' # "decode") =>
               IF DecodeOk(disk, uiP)
               THEN uiPc' = "insert" /\ uiBmp' # NoBmp /\ g_cache' = g_cache
               ELSE uiPc' = "ret" /\ uiBmp' = NoBmp /\ g_cache' = g_cache
           /\ (uiPc = "insert" /\ uiPc' # "insert") =>
               /\ uiPc' = "ret"
               /\ uiBmp' = uiBmp
               /\ g_cache' = [g_cache EXCEPT ![uiP] = uiBmp] ]_vars

\* GetBitmapAt returned null for the corrupt file while the loader, which
\* also tried it, has filled the cache with the other files
C7_Witness ==
    /\ uiPc = "ret"
    /\ uiP \in Corrupt
    /\ uiBmp = NoBmp
    /\ bgPc = "loop"
    /\ Keys(g_cache) = DiskPaths(disk) \ Corrupt

\* C8: a bitmap stored in the cache under a key is not replaced by another
\* instance while the key stays in the cache.
C8_NoDuplicateInsert ==
    [][ \A p \in Paths :
          (g_cache[p] # NoBmp /\ g_cache'[p] # NoBmp) =>
              g_cache'[p].inst = g_cache[p].inst ]_vars

C11_WindowPopulated ==
    [][ ( /\ bgPc = "trim"
          /\ bgPc' # "trim"
          /\ Len(g_files) = bgN
          /\ \A d \in (0 - Window) .. Window :
                DecodeOk(disk, g_files[Norm(bgIdx + d, bgN) + 1]) )
        => \A d \in (0 - Window) .. Window :
                g_cache'[g_files[Norm(bgIdx + d, bgN) + 1]] # NoBmp ]_vars

\* loadOne(idx + d) has returned
LoadOneDone == bgPc = "load" /\ (bgD' # bgD \/ bgPc' # "load")

\* the position of the running call loadOne(idx + d) was requested by an
\* earlier call of the same cycle
Repeated ==
    \E d \in (0 - Window) .. (bgD - 1) :
        Norm(bgIdx + d, bgN) = Norm(bgIdx + bgD, bgN)

\* C12 as stated: every position that loadOne indexes is in 0 .. n-1 (for
\* idx = 0 and n = 3 the positions are 1, 2, 0, 1, 2), a call for a position
\* requested before neither decodes nor stores, and PreloadAround on an empty
\* list calls loadOne not at all.
C12_WindowRequests ==
    /\ [][ LoadOneDone =>
             /\ 0 <= bgI' /\ bgI' < bgN
             /\ (bgIdx = 0 /\ bgN = 3) =>
                    bgI' = << 1, 2, 0, 1, 2 >>[bgD + Window + 1]
             /\ Repeated => (~bgDecoded' /\ g_cache' = g_cache) ]_vars
    /\ [](Len(g_files) = 0 => bgPc \notin {"load", "trim"})

\* C12, amended: as above, but a call for a position requested before
\* decodes again when the file there does not decode (a failed decode
\* leaves no key); it stores nothing.
C12_WindowRequestsAmended ==
    /\ [][ LoadOneDone =>
             /\ 0 <= bgI' /\ bgI' < bgN
             /\ (bgIdx = 0 /\ bgN = 3) =>
                    bgI' = << 1, 2, 0, 1, 2 >>[bgD + Window + 1]
             /\ Repeated =>
                    /\ g_cache' = g_cache
                    /\ bgDecoded' <=> ~DecodeOk(disk, g_files[bgI' + 1]) ]_vars
    /\ [](Len(g_files) = 0 => bgPc \notin {"load", "trim"})

\* the cycle for idx = 0 on three files has requested 1, 2, 0, 1, 2, and at
\* the second request of position 2 decoded the corrupt file again
C12_Witness ==
    /\ bgPc = "trim"
    /\ bgIdx = 0
    /\ bgN = 3
    /\ bgI = 2
    /\ bgDecoded
    /\ Keys(g_cache) = {1, 2}

\* C13: the UI thread, inside NextImage, PrevImage or ShowImageAtIndex, is
\* never at a lock_guard of g_cacheMutex while the loader thread holds the
\* mutex and is decoding the images of its window.
C13_NavigationNeverWaits ==
    ~ ( /\ uiMsg \in {"next", "prev", "jump"}
        /\ uiPc \in {"lookup", "insert"}
        /\ cacheMutex = "bg"
        /\ bgPc = "load" )

\* the loader thread reads g_files (its length, or a path) in this step
BgReadsFiles ==
    /\ bgPc \in {"enter", "load"}
    /\ << bgPc, bgD, crashed >>' # << bgPc, bgD, crashed >>

\* C14: the loader thread never reads g_files while EnumFiles is replacing
\* it.
C14_FilesReadExcludesReplace ==
    [][ BgReadsFiles => uiPc # "enum_move" ]_vars

\* C15: when the cache is cleared the loader thread has left its loop; no
\* step stores into the cache between g_cache.clear() and GdiplusShutdown;
\* the cache is empty when GdiplusShutdown runs.
C15_TeardownOrder ==
    /\ [](uiPc \in {"cleared", "exited"} => bgPc = "exited")
    /\ [][ uiPc = "cleared" =>
             /\ g_cache' = g_cache
             /\ uiPc' = "exited" => g_cache = EmptyCache ]_vars

\* C16: once g_stopThreads is set the loader thread leaves its loop (unless
\* the process ends first), and from its next loop test on it starts no
\* cycle: it runs at most the one call of PreloadAround it had already
\* decided on.
C16_LoaderStops ==
    /\ (g_stopThreads ~> (bgPc = "exited" \/ ~Running))
    /\ [][ (g_stopThreads /\ bgPc = "loop") => bgPc' \in {"loop", "exited"} ]_vars

\* the loader thread has left its loop on the stop signal while the UI
\* thread has not yet cleared the cache
C16_Witness ==
    /\ g_stopThreads
    /\ bgPc = "exited"
    /\ uiPc = "quit"
    /\ ~crashed

(***************************************************************************)
(* CalcRectAndMatrix, lines 301-331, as DrawImageOntoBackbuffer calls it   *)
(* (line 396):                                                             *)
(* the rectangle the bitmap is drawn into.  rc is the client rectangle of  *)
(* the panel, so rc.left = rc.top = 0, ww = rc.right and wh = rc.bottom.   *)
(* The doubles of the source hold quotients of small integers; they are    *)
(* computed here exactly: imgAspect > wAR is w * wh > ww * h, and          *)
(* (int)(wh / imgAspect) is wh * h / w truncated.                          *)
(***************************************************************************)

\* (int)(a / 2.0) and the like: the quotient truncated toward zero, b > 0
TruncDiv(a, b) == IF a >= 0 THEN a \div b ELSE 0 - ((0 - a) \div b)

CalcRectAndMatrix(w, h, ww, wh, zoom) ==
    IF zoom = 0 \/ (zoom = 2 /\ w <= ww /\ h <= wh)
    THEN [X |-> TruncDiv(ww - w, 2), Y |-> TruncDiv(wh - h, 2),
          Width |-> w, Height |-> h]
    ELSE IF w * wh > ww * h
         THEN LET height == TruncDiv(wh * h, w)
              IN  [X |-> 0, Y |-> TruncDiv(wh - height, 2),
                   Width |-> ww, Height |-> height]
         ELSE LET width == TruncDiv(wh * w, h)
              IN  [X |-> TruncDiv(ww - width, 2), Y |-> 0,
                   Width |-> width, Height |-> wh]

\* the division ww / wh of line 317 is by zero
DividesByZero(w, h, ww, wh, zoom) ==
    ~(zoom = 0 \/ (zoom = 2 /\ w <= ww /\ h <= wh)) /\ wh = 0

\* the switch on orient treats every value as 3
OrientationMatrixNoDefault(orient, rect) ==
    RotateAt(Identity, 2, 2 * rect.X + rect.Width, 2 * rect.Y + rect.Height)

(***************************************************************************)
(* CalcRectAndMatrix, lines 333-346: the switch on orient, applied to the  *)
(* identity matrix that DrawImageOntoBackbuffer passes (line 394).         *)
(***************************************************************************)
OrientationMatrix(orient, rect) ==
    LET cx2 == 2 * rect.X + rect.Width
        cy2 == 2 * rect.Y + rect.Height
    IN  CASE orient = 2 ->
               Translate(Scale(Identity, 0 - 1, 1), 2 * rect.Width, 0)
          [] orient = 3 -> RotateAt(Identity, 2, cx2, cy2)
          [] orient = 4 ->
               Translate(Scale(Identity, 1, 0 - 1), 0, 2 * rect.Height)
          [] orient = 5 -> Scale(RotateAt(Identity, 1, cx2, cy2), 1, 0 - 1)
          [] orient = 6 -> RotateAt(Identity, 1, cx2, cy2)
          [] orient = 7 -> Scale(RotateAt(Identity, 3, cx2, cy2), 1, 0 - 1)
          [] orient = 8 -> RotateAt(Identity, 3, cx2, cy2)
          [] OTHER -> Identity

\* the sides of the bitmaps: small ones, and those of the documented
\* examples (1600x900 and 100x50)
ImageSides == (1 .. FitMax) \cup {50, 100, 900, 1600}

\* the sides of the panel: small ones, zero for a window shrunk to
\* nothing, and those of the documented examples (800x600 and 200x200)
PanelSides == (0 .. FitMax) \cup {200, 600, 800}

\* what GetExifOrientation returns (lines 199-211): the WORD of the
\* property item, or 1
Orientations == 0 .. OrientMax

(***************************************************************************)
(* The drawing of one image: a bitmap of fit.w x fit.h in a panel of       *)
(* fit.ww x fit.wh, with g_zoom read from the registry (line 1055) and     *)
(* stepped by the zoom button, and the orientation fit.orient read from    *)
(* the bitmap.                                                             *)
(***************************************************************************)
InitFit ==
    /\ InitOn(SmallDisk)
    /\ g_rootPath = "empty"
    /\ ~g_recursive
    /\ rt = NoRt
    /\ \E w \in ImageSides, h \in ImageSides, ww \in PanelSides,
          wh \in PanelSides, zoom \in 0 .. 2, orient \in Orientations :
          fit = [NoFit EXCEPT !.w = w, !.h = h, !.ww = ww, !.wh = wh,
                              !.zoom = zoom, !.orient = orient]

\* DrawImageOntoBackbuffer, lines 394-398: the rectangle is computed and the
\* bitmap drawn
DrawImageOntoBackbuffer ==
    /\ ~fit.done
    /\ LET rect == CalcRectAndMatrix(fit.w, fit.h, fit.ww, fit.wh, fit.zoom)
       IN  fit' = [fit EXCEPT !.done = TRUE, !.X = rect.X, !.Y = rect.Y,
                              !.Width = rect.Width, !.Height = rect.Height,
                              !.mx = OrientationMatrix(fit.orient, rect)]
    /\ UNCHANGED << disk, lastGot, rotCount, fileVars, g_index, g_cache,
                    cacheMutex, g_loading, g_stopThreads, g_frameIndex, timerOn,
                    display, uiVars, bgVars, crashed, histVars, rt >>

\* WM_COMMAND 106, lines 900-907: the next zoom mode, and the panel is
\* invalidated
ToggleZoom ==
    /\ fit.done
    /\ fit' = [fit EXCEPT !.zoom = (fit.zoom + 1) % 3, !.done = FALSE,
                          !.mx = Identity]
    /\ UNCHANGED << disk, lastGot, rotCount, fileVars, g_index, g_cache,
                    cacheMutex, g_loading, g_stopThreads, g_frameIndex, timerOn,
                    display, uiVars, bgVars, crashed, histVars, rt >>

NextFit ==
    \/ DrawImageOntoBackbuffer
    \/ ToggleZoom

SpecFit == InitFit /\ [][NextFit]_vars

\* C17: a bitmap that GetBitmapAt returns was decoded from the content the
\* file has now: never from the content it had before a rewrite by
\* Rotate90AndResave.
C17_NoStaleAfterRewrite ==
    (uiPc = "ret" /\ uiBmp # NoBmp) => uiBmp.src = fileVer[uiP]

\* after a rewrite of the current file a paint got its bitmap, decoded from
\* the new content, out of the cache
C17_Witness ==
    /\ uiPc = "ret"
    /\ uiMsg = "WM_PAINT"
    /\ fileVer[uiP] > 0
    /\ uiBmp # NoBmp
    /\ uiBmp = g_cache[uiP]
    /\ uiBmp.src = fileVer[uiP]

\* Rotate90AndResave ends with a failed Save
SaveFailed == uiPc = "rot_save" /\ uiPc' \notin {"rot_save", "rot_erase"}

\* C18: GetBitmapAt returns for a path the content it returned for it
\* before, as long as the key has stayed in the cache; a failed Save leaves
\* the file and the cached content of the path as they were.
C18_GetIdempotent ==
    /\ []( (uiPc = "ret" /\ uiBmp # NoBmp /\ lastGot[uiP] # NoContent) =>
             Content(uiBmp) = lastGot[uiP] )
    /\ [][ SaveFailed =>
             /\ fileVer' = fileVer
             /\ g_cache[uiP] # NoBmp =>
                    Content(g_cache'[uiP]) = Content(g_cache[uiP]) ]_vars

\* the image is wider than the panel: w / h > ww / wh
Wider == fit.w * fit.wh > fit.ww * fit.h

\* C19: in Fit mode an image wider than the panel is drawn as wide as the
\* panel, its height ww * h / w truncated, centred vertically; any other
\* image as high as the panel, its width wh * w / h truncated, centred
\* horizontally.  A 1600x900 image in a panel of 800x600 is drawn 800x450
\* at y = 75.
C19_FitKeepsAspect ==
    (fit.done /\ fit.zoom = 1) =>
        /\ IF Wider
           THEN /\ fit.Width = fit.ww
                /\ fit.Height = TruncDiv(fit.ww * fit.h, fit.w)
                /\ fit.Y = TruncDiv(fit.wh - fit.Height, 2)
                /\ fit.X = 0
           ELSE /\ fit.Height = fit.wh
                /\ fit.Width = TruncDiv(fit.wh * fit.w, fit.h)
                /\ fit.X = TruncDiv(fit.ww - fit.Width, 2)
                /\ fit.Y = 0
        /\ (fit.ww = 800 /\ fit.wh = 600 /\ fit.w = 1600 /\ fit.h = 900) =>
              (fit.Width = 800 /\ fit.Height = 450 /\ fit.Y = 75)

\* the rectangle that was drawn into
Drawn == [X |-> fit.X, Y |-> fit.Y, Width |-> fit.Width, Height |-> fit.Height]

\* the rectangle lies inside the panel
InsidePanel ==
    /\ fit.X >= 0
    /\ fit.Y >= 0
    /\ fit.X + fit.Width <= fit.ww
    /\ fit.Y + fit.Height <= fit.wh

\* C20: ShrinkToFit draws the rectangle of Actual when the image fits the
\* panel on both axes and the rectangle of Fit otherwise; Actual draws the
\* image at its own size, centred in the panel; the rectangle of Fit and of
\* ShrinkToFit never extends outside the panel.
C20_ZoomModes ==
    fit.done =>
        /\ fit.zoom = 2 =>
              Drawn = IF fit.w <= fit.ww /\ fit.h <= fit.wh
                      THEN CalcRectAndMatrix(fit.w, fit.h, fit.ww, fit.wh, 0)
                      ELSE CalcRectAndMatrix(fit.w, fit.h, fit.ww, fit.wh, 1)
        /\ fit.zoom = 0 =>
              /\ fit.Width = fit.w
              /\ fit.Height = fit.h
              /\ fit.X = TruncDiv(fit.ww - fit.w, 2)
              /\ fit.Y = TruncDiv(fit.wh - fit.h, 2)
        /\ fit.zoom \in {1, 2} => InsidePanel

\* C21: for the orientation 1, and for any value outside 2 .. 8, the matrix
\* stays the identity; and for every orientation the rectangle is the one
\* that the image size, the panel size and the zoom mode give.
C21_OrientationOneIsIdentity ==
    fit.done =>
        /\ fit.orient \notin 2 .. 8 => fit.mx = Identity
        /\ Drawn = CalcRectAndMatrix(fit.w, fit.h, fit.ww, fit.wh, fit.zoom)

\* a 1600x900 bitmap of orientation 1 was drawn in Fit mode
C21_Witness ==
    /\ fit.done
    /\ fit.orient = 1
    /\ fit.zoom = 1
    /\ fit.w = 1600
    /\ fit.h = 900
    /\ fit.Width = fit.ww
    /\ fit.ww > 0
    /\ fit.mx = Identity

\* C22: in a panel of width zero or height zero, whatever the zoom mode,
\* nothing is divided by zero, the rectangle has no area and the matrix is
\* the identity.
C22_DegenerateViewport ==
    (fit.done /\ (fit.ww = 0 \/ fit.wh = 0)) =>
        /\ ~DividesByZero(fit.w, fit.h, fit.ww, fit.wh, fit.zoom)
        /\ fit.Width * fit.Height = 0
        /\ fit.mx = Identity

\* the centre of the drawn rectangle, doubled
Centre == << 2 * fit.X + fit.Width, 2 * fit.Y + fit.Height >>

\* C24: for every orientation 1 .. 8 and every rectangle the matrix maps the
\* centre of the rectangle to itself; a 100x50 bitmap of orientation 6 in a
\* panel of 200x200 with zoom Actual is drawn into (50, 75, 100, 50) under
\* the rotation by 90 degrees about (100, 100).
C24_MatrixKeepsCentre ==
    (fit.done /\ fit.orient \in 1 .. 8) =>
        /\ Transform(fit.mx, Centre[1], Centre[2]) = Centre
        /\ ( /\ fit.orient = 6
             /\ fit.zoom = 0
             /\ fit.w = 100
             /\ fit.h = 50
             /\ fit.ww = 200
             /\ fit.wh = 200 ) =>
              /\ Drawn = [X |-> 50, Y |-> 75, Width |-> 100, Height |-> 50]
              /\ fit.mx = [m11 |-> 0, m12 |-> 1, m21 |-> 0 - 1, m22 |-> 0,
                           dx2 |-> 400, dy2 |-> 0]

\* a call of loadOne in a run of PreloadAround that began when no EnumFiles
\* was replacing g_files, and with no replacement since
CleanCycle ==
    /\ bgPc = "load"
    /\ ~bgStart.replacing
    /\ bgStart.files = g_files
    /\ uiPc # "enum_move"

\* C23: a run of PreloadAround that begins after EnumFiles has replaced
\* g_files reads, decodes and stores only paths of the new list; only the
\* run that a replacement overlaps can touch other paths.
C23_PrefetchSelfCorrects ==
    [][ (CleanCycle /\ BgReadsFiles) =>
           /\ ~crashed'
           /\ bgP' \in Range(g_files)
           /\ \A p \in Paths :
                 g_cache'[p] # g_cache[p] => p \in Range(g_files) ]_vars

\* the viewer was started on the empty folder (nothing was cached), the
\* root was changed to the folder of images, and a run of PreloadAround that
\* began on the new list has decoded and stored its first path
C23_Witness ==
    /\ uiMsg = "change_root"
    /\ uiPc = "lookup"
    /\ bgPc = "load"
    /\ bgD = 1 - Window
    /\ bgStart = [files |-> g_files, replacing |-> FALSE]
    /\ bgP \in Range(g_files)
    /\ bgDecoded
    /\ Keys(g_cache) = {bgP}

\* the UI thread is at a lock of g_cacheMutex that the loader thread holds
UiWaitsForCache ==
    /\ uiPc \in {"lookup", "insert", "rot_erase", "quit"}
    /\ cacheMutex = "bg"

\* C25: the loader thread never holds g_filesMutex together with
\* g_cacheMutex; g_filesMutex is never locked by a thread that holds
\* g_cacheMutex, so a thread that holds both locked g_filesMutex first; and
\* the two threads never deadlock on the pair: the loader always releases
\* g_cacheMutex, also while the UI thread waits for it with g_filesMutex
\* held.
C25_LockDiscipline ==
    /\ [](cacheMutex = "bg" => FilesMutexOwner # "bg")
    /\ [][ (FilesMutexOwner = "none" /\ FilesMutexOwner' # "none") =>
              cacheMutex # FilesMutexOwner' ]_vars
    /\ [][ (uiPc = "rot_erase" /\ uiPc' # "rot_erase") =>
              (FilesMutexOwner = "ui" /\ cacheMutex = "none") ]_vars
    /\ UiWaitsForCache ~> (cacheMutex = "none" \/ ~Running)

\* the UI thread holds g_filesMutex in Rotate90AndResave and waits for
\* g_cacheMutex, which the loader holds in the middle of its window
C25_Witness ==
    /\ uiPc = "rot_erase"
    /\ FilesMutexOwner = "ui"
    /\ cacheMutex = "bg"
    /\ bgPc = "load"
    /\ ~crashed

\* DeleteCurrent ends, or the process does, after the user has confirmed
DeleteDone == uiPc = "del_enum" /\ (uiPc' # "del_enum" \/ crashed' # crashed)

\* C26: a confirmed DeleteCurrent on a list that is not empty ends with
\* g_filesMutex released and g_files listed anew with an index inside it;
\* and the UI thread never locks a mutex that it holds.
C26_DeleteCompletes ==
    /\ [][ DeleteDone =>
             /\ ~crashed'
             /\ FilesMutexOwner' = "none"
             /\ g_files' = Listing(disk', g_rootPath, g_recursive)
             /\ (Len(g_files') = 0 /\ g_index' = 0) \/
                   (0 <= g_index' /\ g_index' < Len(g_files')) ]_vars
    /\ [](uiPc # "del_relock")

\* the path of the current image
Current == g_files[g_index + 1]

\* C27: when g_files is not empty and the current file decodes, the
\* GetBitmapAt of the paint returns its bitmap, whatever the loader has
\* loaded and whatever the trim has erased; the paint shows "Error loading
\* image" only when the current file does not decode.
C27_OnDemandFallback ==
    (uiMsg = "WM_PAINT" /\ Len(g_files) > 0) =>
        /\ (uiPc = "ret" /\ DecodeOk(disk, Current)) =>
              (uiP = Current /\ uiBmp # NoBmp)
        /\ (uiPc = "present" /\ display = "Error loading image") =>
              ~DecodeOk(disk, Current)

\* the trim has erased the entry of the current image, and the paint
\* decoded the file itself and got its bitmap
C27_Witness ==
    /\ uiMsg = "WM_PAINT"
    /\ uiPc = "ret"
    /\ uiP = Current
    /\ uiBmp # NoBmp
    /\ lastGot[uiP] = NoContent
    /\ evicted > 0
    /\ CacheSize(g_cache) = CacheCap + 1
    /\ MinKey(g_cache) = uiP

====
